---- MODULE Spec2Model ----
(***************************************************************************)
(* Interview orchestration engine of the AI service (ai-service/app):      *)
(* the session state (langgraph/state.py), the phase handlers              *)
(* (langgraph/nodes/*.py), the stage controllers (langgraph/graph.py) and  *)
(* the HTTP operations on the in-memory session store (api/interview.py).  *)
(*                                                                         *)
(* A score is a binary64 floating-point number, as in the code.  It is     *)
(* held exactly (section "binary64" below), and every sum, difference,     *)
(* product and quotient the code computes is computed as binary64 computes *)
(* it, because the rounding decides comparisons such as avg_clarity >= 0.6.*)
(* A decimal literal of the code is written as a fixed-point number: One   *)
(* (= 6000) stands for 1.0 and k for the decimal k/6000; binary64(k) is    *)
(* the double the literal denotes.                                         *)
(***************************************************************************)
EXTENDS Integers, Sequences, FiniteSets, TLC

VARIABLES
    state,      \* the InterviewState dict of the session (the object itself)
    stored,     \* TRUE iff _interview_sessions holds the session id
    inflight,   \* the complete_interview call suspended at `await feedback_node`
    node,       \* the handler whose turn it is ("api": the stage dispatcher decides)
    ev,         \* the last operation and what it returned
    turns,      \* number of answers attached to the session so far
    nfail,      \* number of collaborator failures and empty replies so far
    calls       \* the handler calls in progress, suspended at an await

vars == <<state, stored, inflight, node, ev, turns, nfail, calls>>

----------------------------------------------------------------------------
(* Decimal literals and thresholds (config.py) *)

One == 60 * 100
Pct(p) == (One \div 100) * p

confidence_threshold_advance == Pct(60)
confidence_threshold_simplify == Pct(40)
technical_threshold_deep_dive == Pct(70)
clarity_threshold_advance == Pct(60)

max_questions_per_stage == 5
max_total_questions == 15
initial_difficulty == 3

(* Bounds of the model *)
MaxTurns == 2         \* answers submitted to one session of the HTTP service
MaxVary == 3          \* answers whose text and scores vary; later ones are steady
MaxFail == 1          \* collaborator failures and empty replies per behaviour
MaxEngineTurns == 3   \* handler runs that follow a session given to the handlers
MaxScript == 12       \* answers of a session given to the handlers
MaxCalls == 2         \* handler calls in progress at the same time
MaxConcTurns == 6     \* answers submitted when only submit_response is called
MaxLongTurns == 30    \* answers submitted one after the other to one session
MaxLongVary == 4      \* answers of such a session whose text varies
MaxTrendLen == 4      \* length of a confidence history given to calculate_trend

None == "None"
Stages == <<"loading", "warmup", "technical", "deep_dive", "wrapup", "feedback", "complete">>
StageOrder(s) == CHOOSE i \in 1..Len(Stages) : Stages[i] = s

Recommendations == {"strong_hire", "hire", "maybe", "no_hire"}

Max(a, b) == IF a >= b THEN a ELSE b
Min(a, b) == IF a <= b THEN a ELSE b

LastN(s, n) == IF Len(s) <= n THEN s ELSE SubSeq(s, Len(s) - n + 1, Len(s))

EmptyDict == [k \in {} |-> 0]
Get(d, k, default) == IF k \in DOMAIN d THEN d[k] ELSE default

----------------------------------------------------------------------------
(* binary64.  A finite double x with 0 <= x < 8 that is 0 or at least      *)
(* 2^-14 is a whole number of units of 2^-67; it is held exactly as that   *)
(* number, in three limbs of 24 bits, most significant first.  Every       *)
(* operation computes the exact result and rounds it to 53 significant     *)
(* bits, ties to even, as IEEE 754 arithmetic does.                        *)

Limb == 2^24
HalfLimb == 2^12
Pow2 == [b \in 0..30 |-> 2^b] @@ <<>>

Less64(x, y) ==
    \/ x[1] < y[1]
    \/ x[1] = y[1] /\ x[2] < y[2]
    \/ x[1] = y[1] /\ x[2] = y[2] /\ x[3] < y[3]

Ge64(x, y) == ~Less64(x, y)

RECURSIVE BitLenRec(_)
BitLenRec(v) == IF v = 0 THEN 0 ELSE 1 + BitLenRec(v \div 2)
BitLenOf == [v \in 0..(HalfLimb - 1) |-> BitLenRec(v)] @@ <<>>
BitLen(v) == IF v < HalfLimb THEN BitLenOf[v] ELSE 12 + BitLenOf[v \div HalfLimb]

Carry2(h, s2, l) == <<h + (s2 \div Limb), s2 % Limb, l>>
Carry(x) == Carry2(x[1], x[2] + (x[3] \div Limb), x[3] % Limb)

RoundsUp(twice, full, odd) == twice > full \/ (twice = full /\ odd = 1)

(* p = 2^t, low = the t bits of q that are dropped *)
RoundLow(q, r, n, p, low) ==
    Carry(<<q[1], q[2],
            q[3] - low + (IF RoundsUp(2 * (low * n + r), n * p, (q[3] \div p) % 2)
                          THEN p ELSE 0)>>)

RoundAt(q, r, n, t) == IF t <= 0 THEN q ELSE RoundLow(q, r, n, Pow2[t], q[3] % Pow2[t])

(* q + r/n rounded to 53 significant bits: the top limb carries the bits   *)
(* from 2^48 up, so the last BitLen(q[1]) - 5 bits are dropped             *)
Round53(q, r, n) == RoundAt(q, r, n, BitLen(q[1]) - 5)

(* x + y *)
fadd(x, y) == Round53(Carry(<<x[1] + y[1], x[2] + y[2], x[3] + y[3]>>), 0, 1)

Borrow2(h, d2, l) == IF d2 < 0 THEN <<h - 1, d2 + Limb, l>> ELSE <<h, d2, l>>
Borrow(h, m, d3) == IF d3 < 0 THEN Borrow2(h, m - 1, d3 + Limb) ELSE Borrow2(h, m, d3)

(* |x - y|; x - y and y - x round to opposite numbers *)
fabsdiff(x, y) ==
    IF Less64(x, y)
    THEN Round53(Borrow(y[1] - x[1], y[2] - x[2], y[3] - x[3]), 0, 1)
    ELSE Round53(Borrow(x[1] - y[1], x[2] - y[2], x[3] - y[3]), 0, 1)

(* long division by a small integer n, half a limb at a time *)
HalfLimbs(x) ==
    <<x[1], x[2] \div HalfLimb, x[2] % HalfLimb, x[3] \div HalfLimb, x[3] % HalfLimb>>

RECURSIVE LongDiv(_, _, _, _)
LongDivStep(digits, n, cur, q) == LongDiv(Tail(digits), n, cur % n, Append(q, cur \div n))
LongDiv(digits, n, r, q) ==
    IF digits = <<>>
    THEN Round53(<<q[1], (q[2] * HalfLimb) + q[3], (q[4] * HalfLimb) + q[5]>>, r, n)
    ELSE LongDivStep(digits, n, (r * HalfLimb) + Head(digits), q)

(* x / n *)
fdiv(x, n) == LongDiv(HalfLimbs(x), n, 0, <<>>)

(* The double a decimal literal k/6000 denotes: the quotient k/6000,       *)
(* rounded; k * 2^67 / 6000 = k * 2^63 / 375.                              *)
Binary64Of == [k \in 0..One |-> fdiv(<<k * (2^15), 0, 0>>, 375)] @@ <<>>
binary64(k) == Binary64Of[k]

(* float(n) of a small integer n >= 0 *)
float(n) == <<n * (2^19), 0, 0>>

(* x * y.  The digits of x and y in base 2^12, least significant first;    *)
(* digit k of the product is the sum of the x[i] * y[j] with i + j = k and *)
(* the carry of digit k - 1.  The product is a number of units of 2^-134:  *)
(* its digits from 2^67 up are the result, the rest decides the rounding.  *)
Digits(x) ==
    <<x[3] % HalfLimb, x[3] \div HalfLimb, x[2] % HalfLimb, x[2] \div HalfLimb,
      x[1] % HalfLimb, x[1] \div HalfLimb>>

RECURSIVE DigitSum(_, _, _, _)
DigitSum(xs, ys, k, i) ==
    IF i > Len(xs) THEN 0
    ELSE (IF k - i \in 1..Len(ys) THEN xs[i] * ys[k - i] ELSE 0) + DigitSum(xs, ys, k, i + 1)

RECURSIVE LongMul(_, _, _, _)
LongMulStep(xs, ys, k, v) == <<v % HalfLimb>> \o LongMul(xs, ys, k + 1, v \div HalfLimb)
LongMul(xs, ys, k, carry) ==
    IF k > Len(xs) + Len(ys) THEN <<carry>>
    ELSE LongMulStep(xs, ys, k, DigitSum(xs, ys, k, 1) + carry)

(* the digits d (least significant first) of a number of units of 2^-134,  *)
(* as a number of units of 2^-67: 67 = 5 * 12 + 7 bits are dropped         *)
Shifted(d, k) == (d[k + 6] \div 128) + ((d[k + 7] % 128) * 32)
Dropped67(d) == <<d[6] % 128, d[5], d[4], d[3], d[2], d[1]>>

RoundProduct(d) ==
    Round53(<<(Shifted(d, 5) * HalfLimb) + Shifted(d, 4),
              (Shifted(d, 3) * HalfLimb) + Shifted(d, 2),
              (Shifted(d, 1) * HalfLimb) + Shifted(d, 0)>>,
            IF Dropped67(d) = <<0, 0, 0, 0, 0, 0>> THEN 0 ELSE 1, 2)

fmul(x, y) ==
    CHOOSE r \in { RoundProduct(d) : d \in {LongMul(Digits(x), Digits(y), 2, 0)} } : TRUE

(* round(x, 3): the multiple of 0.001 nearest to x (x taken exactly, a tie *)
(* goes to the even multiple), as a double.  x * 1000 is computed exactly. *)
RECURSIVE TimesSmall(_, _, _)
TimesSmallStep(xs, n, v) == <<v % HalfLimb>> \o TimesSmall(Tail(xs), n, v \div HalfLimb)
TimesSmall(xs, n, carry) ==
    IF xs = <<>> THEN <<carry, 0, 0, 0, 0, 0, 0>>
    ELSE TimesSmallStep(xs, n, (Head(xs) * n) + carry)

NearestInteger(whole, dropped) ==
    IF \/ dropped[1] > 64
       \/ dropped[1] = 64 /\ dropped # <<64, 0, 0, 0, 0, 0>>
       \/ dropped = <<64, 0, 0, 0, 0, 0>> /\ whole % 2 = 1
    THEN whole + 1 ELSE whole

round3(x) ==
    CHOOSE r \in { binary64(6 * NearestInteger(Shifted(d, 0) + (Shifted(d, 1) * HalfLimb),
                                               Dropped67(d))) :
                       d \in {TimesSmall(Digits(x), 1000, 0)} } : TRUE

fmin(x, y) == IF Less64(y, x) THEN y ELSE x

(* sum(scores): the scores are added from left to right, each addition     *)
(* rounded                                                                 *)
RECURSIVE fsum(_, _)
fsum(acc, scores) ==
    IF scores = <<>> THEN acc
    ELSE fsum(fadd(acc, Head(scores)), Tail(scores))

----------------------------------------------------------------------------
(* langgraph/state.py *)

calculate_trend_slope_bug(scores) ==
    IF Len(scores) < 3 THEN "stable"
    ELSE LET recent == LastN(scores, 3)
             first == recent[1]
             last == recent[3]
             slope == fdiv(fabsdiff(last, first), 2)
         IN  IF Less64(first, last) /\ Ge64(slope, binary64(Pct(10))) THEN "improving"
             ELSE IF Less64(last, first) /\ Ge64(slope, binary64(Pct(10))) THEN "declining"
             ELSE "stable"

calculate_trend(scores) ==
    IF Len(scores) < 3 THEN "stable"
    ELSE LET recent == LastN(scores, 3)
             first == recent[1]
             last == recent[3]
             slope == fdiv(fabsdiff(last, first), 2)
         IN  IF Less64(first, last) /\ Less64(binary64(Pct(10)), slope) THEN "improving"
             ELSE IF Less64(last, first) /\ Less64(binary64(Pct(10)), slope) THEN "declining"
             ELSE "stable"

calculate_average(scores) ==
    IF scores = <<>> THEN binary64(Pct(50))
    ELSE CHOOSE average \in { fdiv(fsum(float(0), recent), Len(recent)) :
                                 recent \in {LastN(scores, 5)} } : TRUE

NoFeedback == [kind |-> None, recommendation |-> None]

create_initial_state ==
    [ current_stage |-> "loading",
      difficulty_level |-> initial_difficulty,
      questions_asked |-> 0,
      questions_in_stage |-> 0,
      messages |-> <<>>,
      current_question |-> "",
      pending_response |-> FALSE,
      last_response |-> None,
      confidence_scores |-> <<>>,
      clarity_scores |-> <<>>,
      technical_scores |-> <<>>,
      depth_scores |-> <<>>,
      confidence_trend |-> "stable",
      avg_confidence |-> binary64(Pct(50)),
      avg_clarity |-> binary64(Pct(50)),
      avg_technical |-> binary64(Pct(50)),
      should_simplify |-> FALSE,
      should_advance |-> FALSE,
      fatigue_detected |-> FALSE,
      struggle_count |-> 0,
      final_feedback |-> NoFeedback,
      recommendation |-> None,
      error |-> None ]

(* No session object exists yet (before start_interview, nothing is stored) *)
NoSession == [create_initial_state EXCEPT !.current_stage = None]

----------------------------------------------------------------------------
(* evaluation/confidence.py and evaluation/scoring.py.  An answer is given *)
(* by what the evaluators read in its text:                                *)
(*   words        len(response.split())                                    *)
(*   sentences    the non-empty pieces between '.', '!' and '?'            *)
(*   hesitations  matches of HESITATION_PATTERNS                           *)
(*   assertions   matches of ASSERTION_PATTERNS                            *)
(*   listed       a numbered point or a bullet                             *)
(*   paragraphs   an empty line, or more than three ". "                   *)
(*   transitions  matches of the transition words                          *)
(*   indicators   the depth indicators the text contains                   *)
(*   ellipsis     the text ends with "..."                                 *)

Text(words, sentences, hesitations, assertions, rest) ==
    [ words |-> words, sentences |-> sentences,
      hesitations |-> hesitations, assertions |-> assertions ] @@ rest

Plain == [listed |-> FALSE, paragraphs |-> FALSE, transitions |-> 0,
          indicators |-> {}, ellipsis |-> FALSE]

(* The answers of the model, by name.  plain20: twenty plain words in one  *)
(* sentence.  assured21, brief20, short7, long51: "I know", "definitely",  *)
(* "clearly", "obviously" and "I built" among 21 words in one sentence, 20 *)
(* in two, 7 in one and 51 in four.  trailing20: brief20 ending with       *)
(* "...".  hesitant8: "maybe", "perhaps", "probably" and "sorry" among 8   *)
(* words.  detailed62: 62 words in three sentences with a numbered point,  *)
(* "definitely", "clearly", "obviously", "specifically" and "in my         *)
(* experience".                                                            *)
Texts ==
    [ plain20 |-> Text(20, 1, 0, 0, Plain),
      assured21 |-> Text(21, 1, 0, 5, Plain),
      brief20 |-> Text(20, 2, 0, 5, Plain),
      trailing20 |-> Text(20, 2, 0, 5, [Plain EXCEPT !.ellipsis = TRUE]),
      short7 |-> Text(7, 1, 0, 5, Plain),
      long51 |-> Text(51, 4, 0, 5, Plain),
      hesitant8 |-> Text(8, 1, 4, 0, Plain),
      detailed62 |-> Text(62, 3, 0, 5,
                          [Plain EXCEPT !.listed = TRUE, !.transitions = 1,
                                        !.indicators = {"specifically", "in my experience"}]) ]

fmax(x, y) == IF Less64(x, y) THEN y ELSE x

calculate_hesitation_ratio(text) ==
    IF text.words = 0 THEN binary64(Pct(50))
    ELSE fmin(fmul(fdiv(float(text.hesitations), text.words), float(10)), float(1))

calculate_assertion_score(text) ==
    IF text.words = 0 THEN binary64(Pct(50))
    ELSE IF text.assertions = 0 THEN binary64(Pct(30))
    ELSE IF text.assertions <= 2 THEN binary64(Pct(50))
    ELSE IF text.assertions <= 4 THEN binary64(Pct(70))
    ELSE binary64(Pct(90))

calculate_structure_score(text) ==
    fmin(fsum(binary64(Pct(30)),
              (IF text.listed THEN <<binary64(Pct(30))>> ELSE <<>>)
                  \o (IF text.paragraphs THEN <<binary64(Pct(20))>> ELSE <<>>)
                  \o (IF text.transitions >= 2 THEN <<binary64(Pct(20))>> ELSE <<>>)),
         float(1))

analyze_confidence(text) ==
    round3(fsum(fmul(binary64(Pct(25)), fabsdiff(float(1), calculate_hesitation_ratio(text))),
                << fmul(binary64(Pct(35)), calculate_assertion_score(text)),
                   fmul(binary64(Pct(20)), calculate_structure_score(text)),
                   fmul(binary64(Pct(20)), binary64(Pct(50))) >>))

(* avg_sentence_len = words / sentences is compared with whole numbers;    *)
(* the rounded quotient of two whole numbers lies on the same side of a    *)
(* whole number as the quotient itself                                     *)
length_score(text) ==
    IF 15 * text.sentences <= text.words /\ text.words <= 25 * text.sentences THEN float(1)
    ELSE IF 10 * text.sentences <= text.words /\ text.words <= 30 * text.sentences
    THEN binary64(Pct(70))
    ELSE binary64(Pct(40))

completeness(text) ==
    IF text.words < 20 THEN binary64(Pct(40))
    ELSE IF text.words < 50 THEN binary64(Pct(60))
    ELSE IF text.words < 150 THEN binary64(Pct(90))
    ELSE binary64(Pct(80))

evaluate_clarity(text) ==
    IF text.words = 0 \/ text.sentences = 0 THEN binary64(Pct(50))
    ELSE fmax(float(0),
              fmin(float(1),
                   fabsdiff(fadd(fmul(length_score(text), binary64(Pct(40))),
                                 fmul(completeness(text), binary64(Pct(60)))),
                            IF text.ellipsis THEN binary64(Pct(10)) ELSE float(0))))

(* depth_indicators, in the order of the dict *)
depth_indicators ==
    << <<"example", Pct(10)>>, <<"for instance", Pct(10)>>, <<"specifically", Pct(10)>>,
       <<"trade-off", Pct(15)>>, <<"trade off", Pct(15)>>, <<"complexity", Pct(10)>>,
       <<"edge case", Pct(15)>>, <<"exception", Pct(10)>>, <<"in production", Pct(15)>>,
       <<"in my experience", Pct(10)>>, <<"we implemented", Pct(10)>>,
       <<"we built", Pct(10)>>, <<"challenge", Pct(10)>>, <<"solution", Pct(10)>>,
       <<"approach", Pct(10)>>, <<"alternative", Pct(10)>> >>

evaluate_depth(text) ==
    LET present == SelectSeq(depth_indicators, LAMBDA item : item[1] \in text.indicators)
    IN  fmin(float(1),
             fsum(binary64(Pct(30)), [i \in 1..Len(present) |-> binary64(present[i][2])]))

(* The signals that depend on the text alone, computed once per text *)
Signals ==
    [ response \in DOMAIN Texts |->
        [ confidence |-> analyze_confidence(Texts[response]),
          clarity |-> evaluate_clarity(Texts[response]),
          depth |-> evaluate_depth(Texts[response]) ] ] @@ <<>>

(* rating: the number the LLM replies with when it is asked to rate the    *)
(* answer (a decimal literal), or Failed when the call, or float() of the  *)
(* reply, raises                                                           *)
Failed == -1

evaluate_technical_accuracy(response, rating) ==
    IF rating # Failed THEN fmax(float(0), fmin(float(1), binary64(rating)))
    ELSE IF Texts[response].words < 20 THEN binary64(Pct(30))
    ELSE IF Texts[response].words < 50 THEN binary64(Pct(50))
    ELSE binary64(Pct(60))

evaluate_response(response, rating, stage) ==
    CHOOSE evaluation \in
        { [ confidence |-> signals.confidence,
            clarity |-> signals.clarity,
            technical |-> IF stage = "warmup" THEN binary64(Pct(50))
                          ELSE evaluate_technical_accuracy(response, rating),
            depth |-> signals.depth ] : signals \in {Signals[response]} } : TRUE

----------------------------------------------------------------------------
(* Messages of the conversation log, by representation: the Message dicts  *)
(* of state.py and the LangChain message objects.                          *)

DictAssistant == "dict_assistant"
DictHuman == "dict_human"
AIMessage == "AIMessage"
HumanMessage == "HumanMessage"


(* What a handler call produces: the delta it returns, or an exception *)
Return(updates) == [raised |-> FALSE, updates |-> updates]
Raise == [raised |-> TRUE, updates |-> EmptyDict]

(* `if state["last_response"]:` - None and the empty string are falsy *)
HasAnswer(s) == s.last_response \notin {None, ""}

(* The score lists and aggregates every evaluating handler writes *)
AppendScores(s, evaluation) ==
    [ confidence_scores |-> Append(s.confidence_scores, evaluation.confidence),
      clarity_scores |-> Append(s.clarity_scores, evaluation.clarity),
      technical_scores |-> Append(s.technical_scores, evaluation.technical),
      depth_scores |-> Append(s.depth_scores, evaluation.depth) ]

(* The outcome `gen` of the handler's use of the LLM provider: "ok",       *)
(* "empty" (llm.generate returns the empty string), "noprovider"           *)
(* (get_provider() raises: no provider can be built) or "raise" (the       *)
(* provider exists and llm.generate raises).  A question is held by        *)
(* whether its text is empty.                                              *)
NoProvider(gen) == gen = "noprovider"
GenerationFails(gen) == gen \in {"noprovider", "raise"}
Question == "question"

----------------------------------------------------------------------------
(* langgraph/nodes/load_context.py *)

load_context_node(s, failed) ==
    IF failed
    THEN Return([error |-> "Context loading failed", current_stage |-> "complete"])
    ELSE Return([ current_stage |-> "warmup",
                  current_question |-> Question,
                  messages |-> <<DictAssistant>>,
                  pending_response |-> TRUE ])

----------------------------------------------------------------------------
(* langgraph/nodes/warmup.py.  The evaluators make no external call in     *)
(* warmup (no rating is asked for), so the handler runs without            *)
(* interruption up to `await llm.generate`.                                *)

warmup_updates(s) ==
    IF ~HasAnswer(s) THEN EmptyDict
    ELSE LET evaluation == evaluate_response(s.last_response, Failed, "warmup")
             scores == AppendScores(s, evaluation)
             avg_confidence == calculate_average(scores.confidence_scores)
             avg_clarity == calculate_average(scores.clarity_scores)
         IN  [ avg_confidence |-> avg_confidence,
               avg_clarity |-> avg_clarity,
               confidence_trend |-> calculate_trend(scores.confidence_scores),
               struggle_count |->
                   IF Less64(evaluation.confidence, binary64(confidence_threshold_simplify))
                   THEN s.struggle_count + 1 ELSE 0,
               should_simplify |->
                   Less64(evaluation.confidence, binary64(confidence_threshold_simplify)),
               should_advance |->
                   /\ Ge64(avg_confidence, binary64(confidence_threshold_advance))
                   /\ Ge64(avg_clarity, binary64(clarity_threshold_advance))
                   /\ s.questions_in_stage >= 2 ] @@ scores

(* `difficulty`, computed before the await (warmup.py:140-142) *)
warmup_difficulty(s, updates) ==
    IF Get(updates, "should_simplify", FALSE)
    THEN Max(1, s.difficulty_level - 1)
    ELSE s.difficulty_level

(* the return of warmup_node once its question has been generated; s is    *)
(* the session object at that moment (warmup.py:173-182)                   *)
warmup_question(s, updates, difficulty, gen) ==
    Return([ current_question |-> IF gen = "empty" THEN "" ELSE Question,
             messages |-> <<AIMessage>>,
             pending_response |-> TRUE,
             questions_asked |-> s.questions_asked + 1,
             questions_in_stage |-> s.questions_in_stage + 1,
             difficulty_level |-> difficulty,
             last_response |-> None ] @@ updates)

warmup_exits(s, updates) ==
    \/ Get(updates, "should_advance", FALSE)
    \/ s.questions_in_stage >= max_questions_per_stage

warmup_return_stage_bug(s, updates, gen) ==
    IF warmup_exits(s, updates)
    THEN Return([questions_in_stage |-> 0, current_stage |-> "technical"] @@ updates)
    ELSE IF GenerationFails(gen) THEN Raise
    ELSE warmup_question(s, updates, warmup_difficulty(s, updates), gen)

(* warmup_node once `updates` is computed *)
warmup_return(s, updates, gen) ==
    IF warmup_exits(s, updates) THEN Return([questions_in_stage |-> 0] @@ updates)
    ELSE IF GenerationFails(gen) THEN Raise
    ELSE warmup_question(s, updates, warmup_difficulty(s, updates), gen)

warmup_node_pending_bug(s, gen) ==
    CHOOSE r \in { warmup_return(s, updates, gen) :
                      updates \in {warmup_updates(s)} } : TRUE

warmup_node(s, gen) ==
    IF s.pending_response THEN Return(EmptyDict)
    ELSE CHOOSE r \in { warmup_return(s, updates, gen) :
                           updates \in {warmup_updates(s)} } : TRUE

----------------------------------------------------------------------------
(* langgraph/nodes/technical.py.  response is state["last_response"] as    *)
(* the handler passed it to evaluate_response; the score lists and         *)
(* counters are read from the session object s when the evaluation has     *)
(* returned.                                                               *)

technical_updates(s, response, rating) ==
    IF response \in {None, ""} THEN EmptyDict
    ELSE LET evaluation == evaluate_response(response, rating, "technical")
             scores == AppendScores(s, evaluation)
             avg_technical == calculate_average(scores.technical_scores)
             confidence_trend == calculate_trend(scores.confidence_scores)
         IN  [ avg_confidence |-> calculate_average(scores.confidence_scores),
               avg_clarity |-> calculate_average(scores.clarity_scores),
               avg_technical |-> avg_technical,
               confidence_trend |-> confidence_trend,
               struggle_count |->
                   IF Less64(evaluation.technical, binary64(Pct(40)))
                   THEN s.struggle_count + 1 ELSE 0,
               fatigue_detected |->
                   /\ confidence_trend = "declining"
                   /\ Less64(avg_technical, binary64(Pct(50)))
                   /\ s.questions_asked >= 8,
               difficulty_level |->
                   IF /\ Ge64(evaluation.technical, binary64(Pct(80)))
                      /\ Ge64(evaluation.confidence, binary64(Pct(70)))
                   THEN Min(5, s.difficulty_level + 1)
                   ELSE IF Less64(evaluation.technical, binary64(Pct(40)))
                   THEN Max(1, s.difficulty_level - 1)
                   ELSE s.difficulty_level,
               should_advance |->
                   /\ Ge64(avg_technical, binary64(technical_threshold_deep_dive))
                   /\ confidence_trend \in {"improving", "stable"}
                   /\ s.questions_in_stage >= 3 ] @@ scores

(* evaluate_technical_accuracy calls get_provider() outside its try block: *)
(* without a provider the evaluation of an answer raises, in technical and *)
(* in deep_dive                                                            *)
evaluation_raises(s, gen) == HasAnswer(s) /\ NoProvider(gen)

(* `msg["role"]` raises TypeError on a LangChain message object, and       *)
(* `state.get("last_response", "N/A")[:500]` raises on None.               *)
technical_prompt_raises(s) ==
    \/ \E i \in 1..Len(s.messages) : s.messages[i] \notin {DictAssistant, DictHuman}
    \/ s.last_response = None

technical_exits(s, updates) ==
    \/ Get(updates, "fatigue_detected", FALSE)
    \/ Get(updates, "struggle_count", 0) >= 3
    \/ s.questions_in_stage >= max_questions_per_stage

(* the return of technical_node once its question has been generated *)
technical_question(s, updates, gen) ==
    Return([ current_question |-> IF gen = "empty" THEN "" ELSE Question,
             messages |-> <<DictAssistant>>,
             pending_response |-> TRUE,
             questions_asked |-> s.questions_asked + 1,
             questions_in_stage |-> s.questions_in_stage + 1,
             last_response |-> None ] @@ updates)

(* technical_node once `updates` is computed *)
technical_return(s, updates, gen) ==
    IF technical_exits(s, updates) THEN Return([questions_in_stage |-> 0] @@ updates)
    ELSE IF technical_prompt_raises(s) \/ GenerationFails(gen) THEN Raise
    ELSE technical_question(s, updates, gen)

technical_node(s, rating, gen) ==
    IF s.pending_response THEN Return(EmptyDict)
    ELSE IF evaluation_raises(s, gen) THEN Raise
    ELSE CHOOSE r \in { technical_return(s, updates, gen) :
                           updates \in {technical_updates(s, s.last_response, rating)} } : TRUE

----------------------------------------------------------------------------
(* langgraph/nodes/deep_dive.py *)

deep_dive_updates(s, response, rating) ==
    IF response \in {None, ""} THEN EmptyDict
    ELSE LET evaluation == evaluate_response(response, rating, "deep_dive")
             scores == AppendScores(s, evaluation)
             confidence_trend == calculate_trend(scores.confidence_scores)
         IN  [ avg_confidence |-> calculate_average(scores.confidence_scores),
               avg_clarity |-> calculate_average(scores.clarity_scores),
               avg_technical |-> calculate_average(scores.technical_scores),
               confidence_trend |-> confidence_trend,
               struggle_count |->
                   IF Less64(evaluation.depth, binary64(Pct(40)))
                   THEN s.struggle_count + 1 ELSE 0,
               fatigue_detected |->
                   confidence_trend = "declining" /\ s.questions_asked >= 10 ] @@ scores

deep_dive_exits(s, updates) ==
    \/ Get(updates, "fatigue_detected", FALSE)
    \/ Get(updates, "struggle_count", 0) >= 2
    \/ s.questions_in_stage >= max_questions_per_stage
    \/ s.questions_asked >= max_total_questions

(* the return of deep_dive_node once its question has been generated *)
deep_dive_question(s, updates, gen) ==
    Return([ current_question |-> IF gen = "empty" THEN "" ELSE Question,
             messages |-> <<AIMessage>>,
             pending_response |-> TRUE,
             questions_asked |-> s.questions_asked + 1,
             questions_in_stage |-> s.questions_in_stage + 1,
             last_response |-> None ] @@ updates)

(* deep_dive_node once `updates` is computed *)
deep_dive_return(s, updates, gen) ==
    IF deep_dive_exits(s, updates) THEN Return([questions_in_stage |-> 0] @@ updates)
    ELSE IF GenerationFails(gen) THEN Raise
    ELSE deep_dive_question(s, updates, gen)

deep_dive_node(s, rating, gen) ==
    IF s.pending_response THEN Return(EmptyDict)
    ELSE IF evaluation_raises(s, gen) THEN Raise
    ELSE CHOOSE r \in { deep_dive_return(s, updates, gen) :
                           updates \in {deep_dive_updates(s, s.last_response, rating)} } : TRUE

----------------------------------------------------------------------------
(* langgraph/nodes/wrapup.py.  get_provider() is called before the handler *)
(* looks whether its first, scripted message is due; only the second       *)
(* message is generated.                                                   *)

(* the return of wrapup_node with its first or its generated message *)
wrapup_question(s, gen) ==
    Return([ current_question |-> IF gen = "empty" THEN "" ELSE Question,
             messages |-> <<AIMessage>>,
             pending_response |-> TRUE,
             questions_in_stage |-> s.questions_in_stage + 1,
             last_response |-> None ])

wrapup_node(s, gen) ==
    IF s.pending_response THEN Return(EmptyDict)
    ELSE IF s.questions_in_stage >= 2
    THEN Return([ current_question |-> Question,
                  messages |-> <<AIMessage>>,
                  current_stage |-> "complete",
                  pending_response |-> FALSE ])
    ELSE IF NoProvider(gen) THEN Raise
    ELSE IF s.questions_in_stage = 0 THEN wrapup_question(s, "ok")
    ELSE IF gen = "raise" THEN Raise
    ELSE wrapup_question(s, gen)

----------------------------------------------------------------------------
(* langgraph/nodes/feedback.py.  outcome: "noprovider" (get_provider(),    *)
(* called outside the try block, raises), "raise" (the handler raises      *)
(* while it builds the prompt, outside the try block), "fail"              *)
(* (generate_structured raises, the manual report is used) or the          *)
(* recommendation of the report.                                           *)

FallbackFeedback == [kind |-> "fallback", recommendation |-> "Needs Further Evaluation"]

feedback_node_stage_bug(s, outcome) ==
    IF outcome \in {"noprovider", "raise"} THEN Raise
    ELSE LET feedback_dict ==
                 IF outcome = "fail" THEN FallbackFeedback
                 ELSE [kind |-> "llm", recommendation |-> outcome]
         IN  Return([ current_stage |-> "feedback",
                      final_feedback |-> feedback_dict,
                      recommendation |-> feedback_dict.recommendation,
                      pending_response |-> FALSE ])

feedback_node(s, outcome) ==
    IF outcome \in {"noprovider", "raise"} THEN Raise
    ELSE LET feedback_dict ==
                 IF outcome = "fail" THEN FallbackFeedback
                 ELSE [kind |-> "llm", recommendation |-> outcome]
         IN  Return([ current_stage |-> "complete",
                      final_feedback |-> feedback_dict,
                      recommendation |-> feedback_dict.recommendation,
                      pending_response |-> FALSE ])

----------------------------------------------------------------------------
(* langgraph/graph.py: the stage controllers (conditional edges) *)

should_advance_from_warmup(s) ==
    IF s.should_advance THEN "technical"
    ELSE IF /\ Ge64(s.avg_confidence, binary64(confidence_threshold_advance))
            /\ Ge64(s.avg_clarity, binary64(clarity_threshold_advance))
            /\ s.questions_in_stage >= 2
    THEN "technical"
    ELSE IF s.questions_in_stage >= max_questions_per_stage THEN "technical"
    ELSE "warmup"

should_advance_from_technical(s) ==
    IF s.fatigue_detected \/ s.struggle_count >= 3 THEN "wrapup"
    ELSE IF s.questions_in_stage >= max_questions_per_stage
    THEN IF Ge64(s.avg_technical, binary64(technical_threshold_deep_dive))
         THEN "deep_dive" ELSE "wrapup"
    ELSE IF /\ Ge64(s.avg_technical, binary64(technical_threshold_deep_dive))
            /\ s.confidence_trend \in {"improving", "stable"}
            /\ s.questions_in_stage >= 3
    THEN "deep_dive"
    ELSE "technical"

should_advance_from_deep_dive(s) ==
    IF s.fatigue_detected THEN "wrapup"
    ELSE IF s.struggle_count >= 2 THEN "wrapup"
    ELSE IF s.questions_in_stage >= max_questions_per_stage THEN "wrapup"
    ELSE IF s.questions_asked >= max_total_questions THEN "wrapup"
    ELSE "deep_dive"

should_continue_after_wrapup(s) ==
    IF s.questions_in_stage >= 2 THEN "feedback" ELSE "wrapup"

(* The controller build_interview_graph attaches to handler n *)
HandlerNodes == {"warmup", "technical", "deep_dive", "wrapup"}

Edge(n, s) ==
    IF n = "warmup" THEN should_advance_from_warmup(s)
    ELSE IF n = "technical" THEN should_advance_from_technical(s)
    ELSE IF n = "deep_dive" THEN should_advance_from_deep_dive(s)
    ELSE should_continue_after_wrapup(s)

----------------------------------------------------------------------------
(* Inputs.  The answers of the first MaxVary turns vary, later ones are    *)
(* steady; in a behaviour at most MaxFail times a collaborator fails or    *)
(* the LLM replies with an empty question.  The LLM is asked for a rating  *)
(* only when a technical or deep_dive handler evaluates an answer.         *)

MayFail == nfail < MaxFail
AnswerChoices == IF turns < MaxVary THEN DOMAIN Texts \cup {""} ELSE {"assured21"}
EngineAnswers ==
    IF turns < MaxEngineTurns THEN {"hesitant8", "detailed62"} ELSE {}
RatingChoices == {Pct(20), Pct(90)} \cup (IF MayFail THEN {Failed} ELSE {})
ProviderChoices == IF MayFail THEN {"ok", "noprovider"} ELSE {"ok"}
GenerateChoices == IF MayFail THEN {"ok", "raise", "empty"} ELSE {"ok"}
GenChoices == IF MayFail THEN {"ok", "raise", "noprovider"} ELSE {"ok"}
FeedbackOutcomes ==
    {"fail", "Strong Fit", "Potential Fit", "Needs Further Evaluation", "Not a Fit Currently"}

----------------------------------------------------------------------------
(* api/interview.py *)

(* `for key, value in updates.items()`: messages are appended, every other *)
(* key is assigned.                                                        *)
Merge(s, updates) ==
    IF "messages" \in DOMAIN updates
    THEN [updates EXCEPT !.messages = s.messages \o updates.messages] @@ s
    ELSE updates @@ s

(* state.py:93, the reducer of the `messages` channel of the compiled      *)
(* graph: the messages of a delta are appended to the log as LangChain     *)
(* message objects.                                                        *)
convert_to_message(m) ==
    IF m = DictAssistant THEN AIMessage
    ELSE IF m = DictHuman THEN HumanMessage
    ELSE m

add_messages(left, right) ==
    [i \in 1..Len(left) |-> convert_to_message(left[i])]
        \o [i \in 1..Len(right) |-> convert_to_message(right[i])]

(* The compiled graph applies a node's delta channel by channel *)
GraphMerge(s, updates) ==
    IF "messages" \in DOMAIN updates
    THEN [updates EXCEPT !.messages = add_messages(s.messages, updates.messages)] @@ s
    ELSE updates @@ s

(* What an operation returned.  stage0, qis0: the session when the call    *)
(* was issued; answered: the handler evaluated an answer; audio: the call  *)
(* is a submit_audio_response; resumed: the call was suspended at an await *)
(* before it responded; outcome: the error detail, or what a collaborator  *)
(* did; route: what the controller of the handler's stage returns for the  *)
(* session the turn leaves; low_streak: the number of consecutive answers  *)
(* the technical handler has evaluated with a technical score below 0.4    *)
(* (other events keep it).                                                 *)
Event0(op, status, pre, streak) ==
    [ op |-> op, status |-> status,
      stage0 |-> pre.current_stage, qis0 |-> pre.questions_in_stage,
      answered |-> FALSE, route |-> None,
      recommendation |-> None, feedback |-> NoFeedback, outcome |-> None,
      resumed |-> FALSE, audio |-> FALSE,
      low_streak |-> streak ]

Event(op, status, pre) == Event0(op, status, pre, ev.low_streak)

start_interview ==
    /\ state = NoSession
    /\ LET s0 == create_initial_state
           r == load_context_node(s0, FALSE)
       IN  /\ state' = Merge(s0, r.updates)
           /\ stored' = TRUE
           /\ ev' = Event("start", 200, s0)
    /\ UNCHANGED <<inflight, node, turns, nfail, calls>>

(* start_interview_with_audio: the compiled graph is invoked on the        *)
(* initial state, runs load_context and interrupts; what it returns is     *)
(* stored under the new session id.  outcome = "raise": the invocation of  *)
(* the graph raises.  A failure of the speech synthesis is absorbed.       *)
start_interview_with_audio(outcome) ==
    /\ state = NoSession
    /\ LET s0 == create_initial_state
           r == load_context_node(s0, FALSE)
       IN  IF outcome = "raise"
           THEN /\ ev' = Event("start", 500, s0)
                /\ nfail' = Min(nfail + 1, MaxFail)
                /\ UNCHANGED <<state, stored>>
           ELSE /\ state' = GraphMerge(s0, r.updates)
                /\ stored' = TRUE
                /\ ev' = Event("start", 200, s0)
                /\ UNCHANGED nfail
    /\ UNCHANGED <<inflight, node, turns, calls>>

(* The handler submit_response calls for stage n, run without interruption *)
Dispatch(n, s, rating, gen) ==
    IF n = "warmup" THEN warmup_node(s, gen)
    ELSE IF n = "technical" THEN technical_node(s, rating, gen)
    ELSE IF n = "deep_dive" THEN deep_dive_node(s, rating, gen)
    ELSE IF n = "wrapup" THEN wrapup_node(s, gen)
    ELSE Return([current_stage |-> "complete"])

AttachAnswer(s, ans, kind) ==
    [s EXCEPT !.last_response = ans,
              !.pending_response = FALSE,
              !.messages = Append(@, kind)]

(* The calls in progress.  A call runs without interruption up to an await *)
(* of an external service, where other requests are served: the            *)
(* transcription of the audio (phase "transcribing"), the rating of the    *)
(* answer in evaluate_technical_accuracy (phase "rating", technical and    *)
(* deep_dive only), `await llm.generate(...)` for the next question (phase *)
(* "awaiting") and, in submit_audio_response, the synthesis of the next    *)
(* question's speech (phase "speaking"), which follows the store of the    *)
(* session.  A call holds the locals of its handler across an await: the   *)
(* answer it gave to evaluate_response, and from the evaluation on         *)
(* `updates` and, in warmup, `difficulty`.  Whatever it reads of the       *)
(* session after an await it reads from the session object as it is then.  *)
CallIds == 1..MaxCalls
Idle == [phase |-> "idle", node |-> None, response |-> None,
         updates |-> EmptyDict, difficulty |-> 0,
         stage0 |-> None, qis0 |-> 0, answered |-> FALSE, audio |-> FALSE,
         resumed |-> FALSE, outcome |-> None]
InProgress == Cardinality({c \in CallIds : calls[c].phase # "idle"})
FreeCall == CHOOSE c \in CallIds :
                calls[c].phase = "idle" /\ \A d \in 1..(c - 1) : calls[d].phase # "idle"

(* the handlers are applied to a session outside the service *)
Engine == node # "api"

(* the response of call h: its operation, and the session as it was when   *)
(* the call was issued                                                     *)
ResponseEvent(h, status, streak) ==
    [Event0(IF Engine THEN h.node ELSE "submit", status,
            [current_stage |-> h.stage0, questions_in_stage |-> h.qis0], streak)
        EXCEPT !.resumed = h.resumed, !.answered = h.answered,
               !.audio = h.audio, !.outcome = h.outcome]

(* the handler of call h suspends at an await *)
Suspend(c, h, s1, phase, updates, fail, streak) ==
    /\ state' = s1
    /\ calls' = [calls EXCEPT ![c] =
                     [h EXCEPT !.phase = phase, !.updates = updates,
                               !.difficulty = IF h.node = "warmup"
                                              THEN warmup_difficulty(s1, updates) ELSE 0,
                               !.resumed = TRUE]]
    /\ ev' = [ResponseEvent(h, 0, streak) EXCEPT
                  !.op = IF Engine THEN "turn_await" ELSE "submit_await",
                  !.answered = FALSE, !.outcome = None]
    /\ nfail' = IF fail THEN Min(nfail + 1, MaxFail) ELSE nfail
    /\ UNCHANGED <<stored, turns, node>>

(* The session is stored; submit_response responds at once.                *)
(* submit_audio_response responds at once when the session is complete or  *)
(* current_question is empty, and otherwise awaits the speech of the       *)
(* question and responds when it returns (interview.py:598-629).           *)
Stored(c, h, s2, fail, streak) ==
    /\ state' = s2
    /\ stored' = TRUE
    /\ turns' = turns + 1
    /\ nfail' = IF fail THEN Min(nfail + 1, MaxFail) ELSE nfail
    /\ \E route \in {IF Engine THEN Edge(h.node, s2) ELSE None} :
           /\ node' = IF Engine THEN route ELSE node
           /\ IF h.audio /\ s2.current_stage # "complete" /\ s2.current_question # ""
              THEN /\ calls' = [calls EXCEPT ![c] = [h EXCEPT !.phase = "speaking",
                                                              !.resumed = TRUE]]
                   /\ ev' = [ResponseEvent(h, 0, streak) EXCEPT !.op = "submit_await"]
              ELSE /\ calls' = [calls EXCEPT ![c] = Idle]
                   /\ ev' = [ResponseEvent(h, 200, streak) EXCEPT !.route = route]

(* The handler of call h has returned or raised (interview.py:254-312,     *)
(* 590-640); a handler that raises leaves the session as it is, with the   *)
(* answer attached.                                                        *)
Respond(c, h, s1, r, fail, streak) ==
    IF r.raised
    THEN /\ state' = s1
         /\ calls' = [calls EXCEPT ![c] = Idle]
         /\ ev' = [ResponseEvent(h, 500, streak) EXCEPT
                       !.outcome = "handler_raised",
                       !.route = IF Engine THEN Edge(h.node, s1) ELSE None]
         /\ nfail' = IF fail THEN Min(nfail + 1, MaxFail) ELSE nfail
         /\ turns' = IF Engine THEN turns + 1 ELSE turns
         /\ UNCHANGED <<stored, node>>
    ELSE Stored(c, h, Merge(s1, r.updates), fail, streak)

(* handler n, with `updates` computed, goes on to its question: it reaches *)
(* `await llm.generate`                                                    *)
GeneratesQuestion(n, s, updates, provider) ==
    /\ IF n = "warmup" THEN ~warmup_exits(s, updates)
       ELSE IF n = "technical" THEN ~technical_exits(s, updates) /\ ~technical_prompt_raises(s)
       ELSE ~deep_dive_exits(s, updates)
    /\ ~NoProvider(provider)

(* the await at which handler n suspends first on session object s, if any *)
FirstAwait(n, s, updates, provider) ==
    IF n \notin HandlerNodes \/ s.pending_response THEN "none"
    ELSE IF n = "wrapup"
    THEN IF s.questions_in_stage = 1 /\ ~NoProvider(provider) THEN "awaiting" ELSE "none"
    ELSE IF n # "warmup" /\ HasAnswer(s)
    THEN IF NoProvider(provider) THEN "none" ELSE "rating"
    ELSE IF GeneratesQuestion(n, s, updates, provider) THEN "awaiting" ELSE "none"

(* interview.py:224-252 and 561-588: the answer is attached to the session *)
(* object and handler n is called; the call suspends in the handler, or    *)
(* the handler returns or raises at once.  issued: the session when the    *)
(* call was issued; audio: the call is a submit_audio_response.            *)
AttachAndDispatch(c, n, ans, provider, issued, audio) ==
    \E s1 \in {AttachAnswer(state, ans, HumanMessage)} :
    \E updates \in {IF n = "warmup" THEN warmup_updates(s1) ELSE EmptyDict} :
    \E h \in {[Idle EXCEPT !.node = n, !.response = ans, !.audio = audio,
                           !.resumed = audio,
                           !.stage0 = issued.current_stage,
                           !.qis0 = issued.questions_in_stage,
                           !.answered = n = "warmup" /\ HasAnswer(s1)]} :
    \E streak \in {IF h.answered THEN 0 ELSE ev.low_streak} :
    \E await \in {FirstAwait(n, s1, updates, provider)} :
        IF await # "none"
        THEN Suspend(c, h, s1, await, updates, FALSE, streak)
        ELSE \E r \in {IF n = "warmup" THEN warmup_return(s1, updates, provider)
                       ELSE Dispatch(n, s1, Failed, provider)} :
                 Respond(c, h, s1, r, r.raised /\ NoProvider(provider), streak)

(* the handler of call h from the return of the rating: the evaluation is  *)
(* complete, `updates` is computed from the session object as it is now,   *)
(* and the handler exits its stage, raises or goes on to its question      *)
Rated(c, h, rating) ==
    \E updates \in {IF h.node = "technical"
                    THEN technical_updates(state, h.response, rating)
                    ELSE deep_dive_updates(state, h.response, rating)} :
    \E h1 \in {[h EXCEPT !.answered = TRUE, !.updates = updates,
                         !.outcome = IF rating = Failed THEN "evaluation_failed" ELSE None]} :
    \E streak \in {IF /\ h.node = "technical"
                      /\ Less64(updates.technical_scores[Len(updates.technical_scores)],
                                binary64(Pct(40)))
                   THEN ev.low_streak + 1 ELSE 0} :
        IF GeneratesQuestion(h.node, state, updates, "ok")
        THEN Suspend(c, h1, state, "awaiting", updates, rating = Failed, streak)
        ELSE \E r \in {IF h.node = "technical" THEN technical_return(state, updates, "ok")
                       ELSE deep_dive_return(state, updates, "ok")} :
                 Respond(c, h1, state, r, rating = Failed, streak)


submit_response_begin_attach_first_bug(ans, provider) ==
    /\ state # NoSession
    /\ InProgress < MaxCalls
    /\ IF ~stored
       THEN /\ ev' = Event("submit", 404, state)
            /\ UNCHANGED <<state, stored, turns, nfail, calls, node>>
       ELSE IF state.current_stage = "complete"
       THEN /\ state' = AttachAnswer(state, ans, HumanMessage)
            /\ ev' = [Event("submit", 400, state) EXCEPT !.outcome = "already_complete"]
            /\ UNCHANGED <<stored, turns, nfail, calls, node>>
       ELSE AttachAndDispatch(FreeCall, state.current_stage, ans, provider, state, FALSE)
    /\ UNCHANGED inflight

(* submit_response up to the first await of the handler, or to its         *)
(* response when the handler does not suspend                              *)
submit_response_begin(ans, provider) ==
    /\ state # NoSession
    /\ InProgress < MaxCalls
    /\ IF ~stored
       THEN /\ ev' = Event("submit", 404, state)
            /\ UNCHANGED <<state, stored, turns, nfail, calls, node>>
       ELSE IF state.current_stage = "complete"
       THEN /\ ev' = [Event("submit", 400, state) EXCEPT !.outcome = "already_complete"]
            /\ UNCHANGED <<state, stored, turns, nfail, calls, node>>
       ELSE AttachAndDispatch(FreeCall, state.current_stage, ans, provider, state, FALSE)
    /\ UNCHANGED inflight

(* submit_response and submit_audio_response from the return of an await   *)
(* of the handler: the rating (rating) or the generated question (gen).    *)
(* When the handler returns, its delta is merged into the session object   *)
(* and the object is stored under the session id (interview.py:254-265,    *)
(* 590-598).                                                               *)
submit_response_end(c, rating, gen) ==
    /\ calls[c].phase \in {"rating", "awaiting"}
    /\ IF calls[c].phase = "rating"
       THEN Rated(c, calls[c], rating)
       ELSE \E h \in {calls[c]} :
            \E r \in {IF gen = "raise" THEN Raise
                      ELSE IF h.node = "warmup"
                      THEN warmup_question(state, h.updates, h.difficulty, gen)
                      ELSE IF h.node = "technical"
                      THEN technical_question(state, h.updates, gen)
                      ELSE IF h.node = "deep_dive"
                      THEN deep_dive_question(state, h.updates, gen)
                      ELSE wrapup_question(state, gen)} :
                Respond(c, h, state, r, gen # "ok", ev.low_streak)
    /\ UNCHANGED inflight

(* submit_audio_response up to the await of the transcription *)
submit_audio_response_begin ==
    /\ state # NoSession
    /\ InProgress < MaxCalls
    /\ IF ~stored
       THEN /\ ev' = [Event("submit", 404, state) EXCEPT !.audio = TRUE]
            /\ UNCHANGED calls
       ELSE /\ ev' = [Event("submit_await", 0, state) EXCEPT !.audio = TRUE]
            /\ calls' = [calls EXCEPT ![FreeCall] =
                            [Idle EXCEPT !.phase = "transcribing", !.audio = TRUE,
                                         !.resumed = TRUE,
                                         !.stage0 = state.current_stage,
                                         !.qis0 = state.questions_in_stage]]
    /\ UNCHANGED <<state, stored, inflight, node, turns, nfail>>

(* submit_audio_response from the return of the transcription: transcript  *)
(* is the text of the answer, "" when nothing was recognised (400 `Could   *)
(* not transcribe audio`), or "raise" when the transcription fails (500).  *)
(* The session is looked up after that; a session deleted in the meantime  *)
(* is a KeyError, answered with status 500, and a complete one is refused  *)
(* with 400 `Interview is already complete`.                               *)
submit_audio_response_transcribed(c, transcript, provider) ==
    /\ calls[c].phase = "transcribing"
    /\ IF \/ transcript \in {"raise", ""}
          \/ ~stored
          \/ state.current_stage = "complete"
       THEN /\ ev' = IF transcript = "raise"
                     THEN [ResponseEvent(calls[c], 500, ev.low_streak)
                               EXCEPT !.outcome = "transcription_failed"]
                     ELSE IF transcript = ""
                     THEN [ResponseEvent(calls[c], 400, ev.low_streak)
                               EXCEPT !.outcome = "not_transcribed"]
                     ELSE IF ~stored
                     THEN [ResponseEvent(calls[c], 500, ev.low_streak)
                               EXCEPT !.outcome = "session_missing"]
                     ELSE [ResponseEvent(calls[c], 400, ev.low_streak)
                               EXCEPT !.outcome = "already_complete"]
            /\ nfail' = IF transcript = "raise" THEN Min(nfail + 1, MaxFail) ELSE nfail
            /\ calls' = [calls EXCEPT ![c] = Idle]
            /\ UNCHANGED <<state, stored, turns, node>>
       ELSE AttachAndDispatch(c, state.current_stage, transcript, provider,
                              [current_stage |-> calls[c].stage0,
                               questions_in_stage |-> calls[c].qis0], TRUE)
    /\ UNCHANGED inflight

(* submit_audio_response from the return of generate_speech to its         *)
(* response; a failure of the synthesis (speech = "raise") is absorbed.    *)
(* The session is not looked up again.                                     *)
submit_audio_response_spoken(c, speech) ==
    /\ calls[c].phase = "speaking"
    /\ ev' = [ResponseEvent(calls[c], 200, ev.low_streak) EXCEPT
                  !.outcome = IF speech = "raise" THEN "speech_failed"
                              ELSE calls[c].outcome]
    /\ nfail' = IF speech = "raise" THEN Min(nfail + 1, MaxFail) ELSE nfail
    /\ calls' = [calls EXCEPT ![c] = Idle]
    /\ UNCHANGED <<state, stored, inflight, node, turns>>

get_interview_state_touch_bug ==
    /\ state # NoSession
    /\ ev' = Event("get", IF stored THEN 200 ELSE 404, state)
    /\ state' = IF stored THEN [state EXCEPT !.pending_response = TRUE] ELSE state
    /\ UNCHANGED <<stored, inflight, node, turns, nfail, calls>>

get_interview_state ==
    /\ state # NoSession
    /\ ev' = Event("get", IF stored THEN 200 ELSE 404, state)
    /\ UNCHANGED <<state, stored, inflight, node, turns, nfail, calls>>

(* The complete_interview call in progress: pre is the session as it was   *)
(* when the call was issued.                                               *)
NoCompletion == [phase |-> "none", stage0 |-> None, qis0 |-> 0]

CompleteEvent(s, pre, outcome) ==
    [Event("complete", 200, pre) EXCEPT !.recommendation = s.recommendation,
                                        !.feedback = s.final_feedback,
                                        !.outcome = outcome]

BasicFeedback(s) ==
    [s EXCEPT !.final_feedback = [kind |-> "basic", recommendation |-> s.recommendation]]

complete_interview_begin_rerun_bug(provider) ==
    /\ state # NoSession
    /\ IF ~stored
       THEN /\ ev' = Event("complete", 404, state)
            /\ UNCHANGED <<state, inflight, nfail>>
       ELSE LET s1 == [state EXCEPT !.current_stage = "complete",
                                    !.pending_response = FALSE]
            IN  IF feedback_node(s1, provider).raised
                THEN /\ state' = BasicFeedback(s1)
                     /\ ev' = CompleteEvent(BasicFeedback(s1), state, provider)
                     /\ nfail' = Min(nfail + 1, MaxFail)
                     /\ UNCHANGED inflight
                ELSE /\ state' = s1
                     /\ inflight' = [phase |-> "feedback", stage0 |-> state.current_stage,
                                   qis0 |-> state.questions_in_stage]
                     /\ ev' = Event("complete_await", 0, state)
                     /\ UNCHANGED nfail
    /\ UNCHANGED <<stored, node, turns, calls>>

(* complete_interview up to `await llm.generate_structured(...)` in        *)
(* feedback_node; when feedback_node raises before it (provider =          *)
(* "noprovider" or "raise") the call runs to its response without          *)
(* interruption.  A call that finds the session complete responds at once, *)
(* so at most one call is suspended at a time.                             *)
complete_interview_begin(provider) ==
    /\ state # NoSession
    /\ IF ~stored
       THEN /\ ev' = Event("complete", 404, state)
            /\ UNCHANGED <<state, inflight, nfail>>
       ELSE IF state.current_stage = "complete"
       THEN /\ ev' = CompleteEvent(state, state, None)
            /\ UNCHANGED <<state, inflight, nfail>>
       ELSE LET s1 == [state EXCEPT !.current_stage = "complete",
                                    !.pending_response = FALSE]
            IN  IF feedback_node(s1, provider).raised
                THEN /\ state' = BasicFeedback(s1)
                     /\ ev' = CompleteEvent(BasicFeedback(s1), state, provider)
                     /\ nfail' = Min(nfail + 1, MaxFail)
                     /\ UNCHANGED inflight
                ELSE /\ state' = s1
                     /\ inflight' = [phase |-> "feedback", stage0 |-> state.current_stage,
                                   qis0 |-> state.questions_in_stage]
                     /\ ev' = Event("complete_await", 0, state)
                     /\ UNCHANGED nfail
    /\ UNCHANGED <<stored, node, turns, calls>>

(* complete_interview from the return of generate_structured to its        *)
(* response                                                                *)
complete_interview_end(outcome) ==
    /\ inflight # NoCompletion
    /\ LET r == feedback_node(state, outcome)
           s1 == IF r.raised THEN BasicFeedback(state) ELSE Merge(state, r.updates)
           pre == [current_stage |-> inflight.stage0, questions_in_stage |-> inflight.qis0]
       IN  /\ state' = s1
           /\ stored' = IF r.raised THEN stored ELSE TRUE
           /\ ev' = [CompleteEvent(s1, pre, outcome) EXCEPT !.resumed = TRUE]
    /\ inflight' = NoCompletion
    /\ UNCHANGED <<node, turns, nfail, calls>>

delete_interview ==
    /\ state # NoSession
    /\ ev' = Event("delete", IF stored THEN 200 ELSE 404, state)
    /\ stored' = FALSE
    /\ UNCHANGED <<state, inflight, node, turns, nfail, calls>>

----------------------------------------------------------------------------
(* Sessions of the HTTP service: what submit_response leaves when the      *)
(* answers of a script are submitted to a new session one after the other  *)
(* (interview.py:223-265).                                                 *)

Submitted(s1, r) == IF r.raised THEN s1 ELSE Merge(s1, r.updates)

RECURSIVE SubmitAll(_, _)
SubmitAll(s, script) ==
    IF script = <<>> \/ s.current_stage = "complete" THEN s
    ELSE CHOOSE q \in
             UNION { { SubmitAll(Submitted(s1, r), Tail(script)) :
                           r \in {Dispatch(s1.current_stage, s1, Failed, "ok")} } :
                       s1 \in {AttachAnswer(s, Head(script), HumanMessage)} } : TRUE

Repeat(ans, k) == [i \in 1..k |-> ans]

(* The interviews submitted: an assured, a plain, a hesitant and a silent  *)
(* candidate, one who starts assured and then hesitates, and one who is    *)
(* silent at first.                                                        *)
Interviews ==
    { Repeat("assured21", MaxScript),
      Repeat("plain20", MaxScript),
      Repeat("hesitant8", MaxScript),
      Repeat("", MaxScript),
      Repeat("assured21", 3) \o Repeat("hesitant8", 3),
      Repeat("", 8) \o <<"assured21", "plain20", "hesitant8">> }

(* the sessions after the opening question and every number of answers of  *)
(* an interview                                                            *)
ServiceInputs ==
    UNION { { SubmitAll(Merge(create_initial_state,
                              load_context_node(create_initial_state, FALSE).updates),
                        SubSeq(script, 1, k)) : k \in 0..Len(script) } :
                script \in Interviews }

----------------------------------------------------------------------------
(* langgraph/graph.py and the handlers as functions.  The service calls    *)
(* the compiled graph once, for load_context, and dispatches on            *)
(* current_stage, which no handler moves to technical, deep_dive or        *)
(* wrapup: the handlers of these stages and the stage controllers are      *)
(* functions the service never reaches.  They are applied here to sessions *)
(* of the service, a turn at a time as submit_response applies a handler   *)
(* (the answer is attached, the handler is called and awaits its           *)
(* collaborators while other turns are served, its delta is merged), in    *)
(* the order build_interview_graph wires them: when a turn ends, the       *)
(* controller of its handler's stage selects the handler of the next turn. *)

(* The handler of the turn called on a session that waits for an answer *)
HandlerPending ==
    /\ node \in HandlerNodes
    /\ state.pending_response
    /\ \E r \in {Dispatch(node, state, Failed, "ok")} :
           /\ state' = Submitted(state, r)
           /\ ev' = [Event(node, 200, state) EXCEPT !.outcome = "suspended"]
    /\ UNCHANGED <<stored, inflight, node, turns, nfail, calls>>

----------------------------------------------------------------------------
(* The HTTP service *)

InitRest ==
    /\ inflight = NoCompletion
    /\ turns = 0
    /\ nfail = 0
    /\ calls = [c \in CallIds |-> Idle]

Init ==
    /\ state = NoSession
    /\ stored = FALSE
    /\ node = "api"
    /\ ev = Event0("init", 0, NoSession, 0)
    /\ InitRest

StartSession == node = "api" /\ start_interview
StartSessionAudio ==
    /\ node = "api"
    /\ \E outcome \in (IF MayFail THEN {"ok", "raise"} ELSE {"ok"}) : start_interview_with_audio(outcome)
SubmitAnswer ==
    /\ node = "api"
    /\ turns + InProgress < MaxTurns
    /\ \E ans \in AnswerChoices, provider \in ProviderChoices :
           submit_response_begin(ans, provider)
SubmitAnswerEnd ==
    /\ node = "api"
    /\ \E c \in CallIds :
       \E rating \in (IF calls[c].phase = "rating" THEN RatingChoices ELSE {Failed}),
          gen \in (IF calls[c].phase = "awaiting" THEN GenerateChoices ELSE {"ok"}) :
           submit_response_end(c, rating, gen)
SubmitAudio ==
    /\ node = "api"
    /\ turns + InProgress < MaxTurns
    /\ submit_audio_response_begin
SubmitAudioTranscribed ==
    /\ node = "api"
    /\ \E c \in CallIds, transcript \in AnswerChoices \cup (IF MayFail THEN {"raise"} ELSE {}),
          provider \in ProviderChoices :
           submit_audio_response_transcribed(c, transcript, provider)
SubmitAudioSpoken ==
    /\ node = "api"
    /\ \E c \in CallIds, speech \in (IF MayFail THEN {"ok", "raise"} ELSE {"ok"}) :
           submit_audio_response_spoken(c, speech)
GetState == node = "api" /\ get_interview_state
ForceComplete ==
    /\ node = "api"
    /\ \E provider \in GenChoices : complete_interview_begin(provider)
ForceCompleteEnd ==
    /\ node = "api"
    /\ \E outcome \in FeedbackOutcomes : complete_interview_end(outcome)
DeleteSession == node = "api" /\ delete_interview

Next ==
    \/ StartSession
    \/ StartSessionAudio
    \/ SubmitAnswer
    \/ SubmitAnswerEnd
    \/ SubmitAudio
    \/ SubmitAudioTranscribed
    \/ SubmitAudioSpoken
    \/ GetState
    \/ ForceComplete
    \/ ForceCompleteEnd
    \/ DeleteSession

Spec == Init /\ [][Next]_vars

(* The HTTP service when only submit_response is called on a session, with *)
(* overlapping calls                                                       *)
SubmitAnswerConc ==
    /\ node = "api"
    /\ turns + InProgress < MaxConcTurns
    /\ \E ans \in (IF turns < MaxVary THEN {"assured21", "hesitant8", "long51"}
                   ELSE {"assured21"}), provider \in ProviderChoices :
           submit_response_begin(ans, provider)

NextConc ==
    \/ StartSession
    \/ SubmitAnswerConc
    \/ SubmitAnswerEnd
    \/ DeleteSession

SpecConc == Init /\ [][NextConc]_vars

(* The HTTP service when the calls on a session follow one another *)
SubmitAnswerLong ==
    /\ node = "api"
    /\ InProgress = 0
    /\ turns < MaxLongTurns
    /\ \E ans \in (IF turns < MaxLongVary
                   THEN {"brief20", "trailing20", "short7", "long51", "hesitant8", ""}
                   ELSE {"assured21"}), provider \in ProviderChoices :
           submit_response_begin(ans, provider)

NextLong ==
    \/ StartSession
    \/ SubmitAnswerLong
    \/ SubmitAnswerEnd

SpecLong == Init /\ [][NextLong]_vars

(* The handlers and controllers applied to sessions of the service *)
InitEngine ==
    /\ \E s \in ServiceInputs : state = s
    /\ node \in HandlerNodes
    /\ stored = TRUE
    /\ ev = Event0("init", 0, NoSession, 0)
    /\ InitRest

(* A turn: the answer is attached and the handler the controllers have    *)
(* selected is called; it runs to its first await or to its return.        *)
Turn ==
    /\ node \in HandlerNodes
    /\ turns + InProgress < MaxEngineTurns
    /\ InProgress < MaxCalls
    /\ \E ans \in EngineAnswers, provider \in ProviderChoices :
           AttachAndDispatch(FreeCall, node, ans, provider, state, FALSE)
    /\ UNCHANGED inflight

(* A suspended turn resumes from the return of its await; when its handler *)
(* returns, the delta is merged and the controller of the handler's stage  *)
(* selects the handler of the next turn.                                   *)
TurnResumes ==
    /\ Engine
    /\ \E c \in CallIds :
       \E rating \in (IF calls[c].phase = "rating" THEN RatingChoices ELSE {Failed}),
          gen \in (IF calls[c].phase = "awaiting" THEN GenerateChoices ELSE {"ok"}) :
           submit_response_end(c, rating, gen)

NextEngine ==
    \/ Turn
    \/ TurnResumes
    \/ HandlerPending

SpecEngine == InitEngine /\ [][NextEngine]_vars

(* calculate_trend applied to a confidence history; the scores are values  *)
(* analyze_confidence returns: 0.265, 0.515, 0.725 and 0.785 for the       *)
(* answers hesitant8, plain20, assured21 and detailed62, 0.465 for a       *)
(* hesitant answer with a numbered point and three assertions, 0.585 for a *)
(* plain answer with one assertion.                                        *)
TrendInputs ==
    UNION { [1..n -> { binary64(6 * k) : k \in {265, 465, 515, 585, 725, 785} }] :
                n \in 0..MaxTrendLen }

InitTrend ==
    /\ \E scores \in TrendInputs :
           state = [create_initial_state EXCEPT !.confidence_scores = scores]
    /\ stored = FALSE
    /\ node = "trend"
    /\ ev = Event0("init", 0, NoSession, 0)
    /\ InitRest

ApplyTrend ==
    /\ node = "trend"
    /\ ev.op = "init"
    /\ state' = [state EXCEPT !.confidence_trend = calculate_trend(state.confidence_scores)]
    /\ ev' = Event("trend", 200, state)
    /\ UNCHANGED <<stored, inflight, node, turns, nfail, calls>>

SpecTrend == InitTrend /\ [][ApplyTrend]_vars

----------------------------------------------------------------------------
(* Properties *)

(* C1: bounded termination - a session that has accepted more than         *)
(* max_total_questions + 2 x (number of stages) answers is complete.       *)
C1_BoundedTermination ==
    LET StageCount == Len(Stages)
        TerminationBound == max_total_questions + 2 * StageCount
    IN  turns > TerminationBound => state.current_stage = "complete"

(* C2: after every successful StartSession or SubmitAnswer call the stored *)
(* session is suspended on a pending question or is complete.              *)
C2_SuspendedOrComplete ==
    (ev.op \in {"start", "submit"} /\ ev.status = 200)
        => (state.pending_response \/ state.current_stage = "complete")

(* C3: whenever the session is complete (and no call is in progress), the  *)
(* feedback handler has run and the recommendation is not nil.             *)
C3_CompleteHasRecommendation ==
    (state.current_stage = "complete" /\ inflight = NoCompletion)
        => (state.recommendation # None /\ state.final_feedback.kind \in {"llm", "fallback"})

(* C4: every ForceComplete call on an existing session returns a non-nil   *)
(* recommendation and a non-nil feedback object.                           *)
C4_ForceCompleteReturnsResult ==
    (ev.op = "complete" /\ ev.status = 200)
        => (ev.recommendation # None /\ ev.feedback # NoFeedback)

(* C5: when the structured-feedback call fails, the recommendation that    *)
(* ForceComplete stores and returns is one of strong_hire, hire, maybe,    *)
(* no_hire.                                                                *)
C5_FallbackRecommendation ==
    (ev.op = "complete" /\ ev.status = 200 /\ ev.outcome = "fail")
        => (ev.recommendation \in Recommendations /\ state.recommendation \in Recommendations)

(* C6: current_stage never regresses in the order loading < warmup <       *)
(* technical < deep_dive < wrapup < feedback < complete, and once complete *)
(* it never changes.                                                       *)
C6_StageNeverRegresses ==
    [][state # NoSession =>
         StageOrder(state'.current_stage) >= StageOrder(state.current_stage)]_vars

(* a SubmitAnswer or ForceComplete call issued on a session that was       *)
(* complete already has responded, and the session holds a conversation    *)
(* and is complete                                                         *)
C6_Witness ==
    /\ state.current_stage = "complete"
    /\ ev.stage0 = "complete"
    /\ ev.op \in {"submit", "complete"}
    /\ ev.status \in {200, 400}
    /\ stored
    /\ Len(state.messages) >= 3

(* C7: an answer processed in warmup after max_questions_per_stage warmup  *)
(* questions moves the session to technical, whatever the averages.        *)
C7_WarmupMaxQuestions ==
    (ev.op = "warmup" /\ ev.status = 200 /\ ev.answered
        /\ ev.qis0 >= max_questions_per_stage)
        => ev.route = "technical"

(* C8: an answer processed in technical after max_questions_per_stage      *)
(* questions, with no fatigue and struggle_count < 3, moves the session to *)
(* deep_dive if avg_technical >= 0.7 and to wrapup otherwise.              *)
C8_TechnicalMaxQuestions ==
    (ev.op = "technical" /\ ev.status = 200 /\ ev.answered
        /\ ev.qis0 >= max_questions_per_stage
        /\ ~state.fatigue_detected /\ state.struggle_count < 3)
        => ev.route = IF Ge64(state.avg_technical, binary64(technical_threshold_deep_dive))
                      THEN "deep_dive" ELSE "wrapup"

(* C9: after three consecutive answers evaluated in technical with a       *)
(* technical score below 0.4 the stage controller selects wrapup.          *)
C9_StruggleCircuitBreaker ==
    (ev.op = "technical" /\ ev.answered /\ ev.low_streak >= 3) => ev.route = "wrapup"

(* C10: an answer processed in warmup selects technical when at least 2    *)
(* questions had been asked and both resulting averages are >= 0.6, and    *)
(* warmup when fewer than max_questions_per_stage had been asked and       *)
(* either fewer than 2 had been asked or an average is below 0.6.          *)
C10_WarmupThreshold ==
    (ev.op = "warmup" /\ ev.status = 200 /\ ev.answered) =>
        LET good == /\ Ge64(state.avg_confidence, binary64(confidence_threshold_advance))
                    /\ Ge64(state.avg_clarity, binary64(clarity_threshold_advance))
        IN  /\ (ev.qis0 >= 2 /\ good) => ev.route = "technical"
            /\ (ev.qis0 < max_questions_per_stage /\ (ev.qis0 < 2 \/ ~good))
                   => ev.route = "warmup"

(* C11: overlapping SubmitAnswer calls lose no update - when no call is in *)
(* progress, every score history holds exactly one entry per answer that   *)
(* a successful SubmitAnswer has processed.                                *)
C11_NoLostUpdate ==
    InProgress = 0 =>
        /\ Len(state.confidence_scores) = turns
        /\ Len(state.clarity_scores) = turns
        /\ Len(state.technical_scores) = turns
        /\ Len(state.depth_scores) = turns

(* C12: once DeleteSession has returned ok the store never again contains  *)
(* the session id, also when a call for the session was in progress at the *)
(* moment of deletion.                                                     *)
C12_DeletedStaysDeleted ==
    [][(state # NoSession /\ ~stored) => ~stored']_vars

(* C13: a SubmitAnswer call (text or audio) issued on a stored session     *)
(* whose stage is complete fails with the SessionComplete error (status    *)
(* 400, `Interview is already complete`) and leaves the session unchanged. *)
C13_SubmitOnCompleteRejected ==
    [][(stored /\ ev'.op = "submit" /\ ev'.stage0 = "complete")
          => /\ ev'.status = 400 /\ ev'.outcome = "already_complete"
             /\ state' = state
             /\ stored']_vars

(* C13, amended: a SubmitAnswer call issued on a session whose stage is    *)
(* complete, and stored when the call looks it up, never succeeds and      *)
(* leaves the session unchanged at every step.  A text call fails with the *)
(* SessionComplete error (400).  An audio call is transcribed before the   *)
(* stage is looked at: it fails with the SessionComplete error (400) when  *)
(* the transcription returns text, with 400 `Could not transcribe audio`   *)
(* when it returns none, and with 500 when the transcription raises.       *)
C13_SubmitOnCompleteUnchanged ==
    [][/\ (ev'.op \in {"submit", "submit_await"} /\ ev'.stage0 = "complete")
          => (state' = state /\ stored' = stored)
       /\ (stored /\ ev'.op = "submit" /\ ev'.stage0 = "complete")
          => /\ <<ev'.status, ev'.outcome>> \in
                    IF ev'.audio
                    THEN {<<400, "already_complete">>, <<400, "not_transcribed">>,
                          <<500, "transcription_failed">>}
                    ELSE {<<400, "already_complete">>}
             /\ ev'.outcome = "transcription_failed"
                    => (nfail < MaxFail /\ nfail' = nfail + 1)
             /\ ev'.outcome # "transcription_failed" => nfail' = nfail]_vars

(* an audio submit whose transcription returned no text has been answered  *)
(* with `Could not transcribe audio` on a complete session that holds a    *)
(* conversation and scores                                                 *)
C13_Witness ==
    /\ ev.op = "submit" /\ ev.audio /\ ev.stage0 = "complete"
    /\ ev.status = 400 /\ ev.outcome = "not_transcribed"
    /\ state.current_stage = "complete"
    /\ stored
    /\ Len(state.confidence_scores) >= 1
    /\ Len(state.messages) >= 3

(* C14: a failure of the question-generation call is absorbed - the        *)
(* SubmitAnswer call in which the stage handler meets it still succeeds    *)
(* and leaves a pending question.                                          *)
C14_GenerationFailureAbsorbed ==
    (ev.op = "submit" /\ ev.outcome = "handler_raised")
        => (ev.status = 200 /\ state.pending_response)

(* C15: when the technical evaluation call for an answer fails, the turn   *)
(* is scored technical = 0.5; in technical it does not count as a struggle *)
(* and does not lower the difficulty.                                      *)
C15_FailedEvaluationNeutral ==
    [][(ev'.outcome = "evaluation_failed") =>
          /\ state'.technical_scores[Len(state'.technical_scores)] = binary64(Pct(50))
          /\ ev'.op = "technical" =>
                 /\ state'.struggle_count = 0
                 /\ state'.difficulty_level >= state.difficulty_level]_vars

(* C16: questions_in_stage is 0 in the state right after every change of   *)
(* current_stage.                                                          *)
C16_StageChangeResetsCounter ==
    [][(state # NoSession /\ state'.current_stage # state.current_stage)
          => state'.questions_in_stage = 0]_vars

(* C17: questions_in_stage never exceeds max_questions_per_stage, and a    *)
(* handler that processes an answer when questions_in_stage has reached    *)
(* max_questions_per_stage generates no question.                          *)
C17_QuestionsInStageBounded ==
    /\ state.questions_in_stage <= max_questions_per_stage
    /\ (/\ ev.op \in {"submit", "warmup", "technical", "deep_dive"}
        /\ ev.status = 200 /\ ev.answered
        /\ ev.qis0 >= max_questions_per_stage)
           => (state.questions_in_stage = 0 /\ ~state.pending_response)

(* C18: the four score histories have the same length in every state, and  *)
(* no operation, in any interleaving, shortens a history.                  *)
C18_ScoreHistoriesAligned ==
    [][LET ScoreLengths(s) ==
               <<Len(s.confidence_scores), Len(s.clarity_scores),
                 Len(s.technical_scores), Len(s.depth_scores)>>
       IN  /\ \A i \in 1..4 : ScoreLengths(state')[i] = ScoreLengths(state')[1]
           /\ \A i \in 1..4 : ScoreLengths(state')[i] >= ScoreLengths(state)[i]]_vars

(* C19: fatigue_detected is monotone - once it is true in a session it is  *)
(* true in every later state; no handler run sets it back to false.        *)
C19_FatigueMonotone ==
    [][state.fatigue_detected => state'.fatigue_detected]_vars

(* C20: difficulty_level stays within 1..5 and one operation - a           *)
(* SubmitAnswer, or one handler run - changes it by at most 1.             *)
C20_DifficultyBounded ==
    [][/\ state'.difficulty_level \in 1..5
       /\ state'.difficulty_level - state.difficulty_level \in {-1, 0, 1}]_vars

(* C21: final_feedback and recommendation are nil until the feedback       *)
(* handler runs (in ForceComplete) and never change once they are not nil. *)
C21_FeedbackWriteOnce ==
    [][/\ state.final_feedback # NoFeedback => state'.final_feedback = state.final_feedback
       /\ state.recommendation # None => state'.recommendation = state.recommendation
       /\ (\/ state'.final_feedback # state.final_feedback
           \/ state'.recommendation # state.recommendation)
              => ev'.op = "complete"]_vars

(* a session that holds feedback has been through a further ForceComplete, *)
(* SubmitAnswer or GetState                                                *)
C21_Witness ==
    /\ state.final_feedback # NoFeedback
    /\ state.recommendation # None
    /\ ev.op \in {"complete", "submit", "get"}
    /\ ev.stage0 = "complete"
    /\ ev.outcome = None

(* C22: GetState is read-only - it changes no field of the session, the    *)
(* store or the calls in progress.                                         *)
C22_GetStateReadOnly ==
    [][ev'.op = "get" =>
          /\ state' = state
          /\ stored' = stored
          /\ inflight' = inflight
          /\ calls' = calls]_vars

(* GetState has answered on a session that waits for an answer after an    *)
(* evaluated turn                                                          *)
C22_Witness ==
    /\ ev.op = "get" /\ ev.status = 200
    /\ state.pending_response
    /\ Len(state.confidence_scores) >= 1

(* C23: on a turn on which the stage controller selects another stage the  *)
(* handler has generated no question - pending_response is not set and     *)
(* questions_in_stage is 0.                                                *)
C23_NoQuestionOnAdvance ==
    (/\ ev.op \in {"warmup", "technical", "deep_dive"}
     /\ ev.status = 200 /\ ev.answered
     /\ ev.route # ev.op)
        => (~state.pending_response /\ state.questions_in_stage = 0)

(* C24: on a turn with a new evaluation in technical or deep_dive the new  *)
(* difficulty follows the Difficulty Adaptor rule, and no other operation  *)
(* changes the difficulty.                                                 *)
C24_DifficultyAdaptorRule ==
    [][LET DifficultyAdaptor(d, technical, confidence) ==
               IF /\ Ge64(technical, binary64(Pct(80)))
                  /\ Ge64(confidence, binary64(Pct(70)))
               THEN Min(5, d + 1)
               ELSE IF Less64(technical, binary64(Pct(40))) THEN Max(1, d - 1)
               ELSE d
       IN  IF ev'.op \in {"technical", "deep_dive"} /\ ev'.status = 200 /\ ev'.answered
           THEN state'.difficulty_level =
                    DifficultyAdaptor(state.difficulty_level,
                        state'.technical_scores[Len(state'.technical_scores)],
                        state'.confidence_scores[Len(state'.confidence_scores)])
           ELSE state # NoSession => state'.difficulty_level = state.difficulty_level]_vars

(* C25: after every evaluated turn the cached aggregates are functions of  *)
(* the histories - each average is the mean of the last min(N,5) entries   *)
(* (their sum, added in order, divided by their number, in binary64        *)
(* arithmetic; 0.5 for an empty history) and confidence_trend is the       *)
(* three-point trend: improving when the last entry exceeds the            *)
(* third-from-last by more than 2 x 0.1, declining when it is the other    *)
(* way round, stable otherwise and for fewer than 3 entries.               *)
C25_AggregatesConsistent ==
    LET MeanOfRecent(scores) ==
            LET recent == LastN(scores, 5)
            IN  IF recent = <<>> THEN binary64(Pct(50))
                ELSE fdiv(fsum(float(0), recent), Len(recent))
        Exceeds(high, low) ==
            LET tenth == binary64(Pct(10))
            IN  Less64(Carry(<<low[1] + (2 * tenth[1]), low[2] + (2 * tenth[2]),
                               low[3] + (2 * tenth[3])>>), high)
        ThreePointTrend(scores) ==
            LET n == Len(scores)
            IN  IF n < 3 THEN "stable"
                ELSE IF Exceeds(scores[n], scores[n - 2]) THEN "improving"
                ELSE IF Exceeds(scores[n - 2], scores[n]) THEN "declining"
                ELSE "stable"
    IN
    (ev.op \in {"submit"} \cup HandlerNodes /\ ev.status = 200 /\ ev.answered) =>
        /\ state.avg_confidence = MeanOfRecent(state.confidence_scores)
        /\ state.avg_clarity = MeanOfRecent(state.clarity_scores)
        /\ state.avg_technical = MeanOfRecent(state.technical_scores)
        /\ state.confidence_trend = ThreePointTrend(state.confidence_scores)

(* C26: calculate_trend is stable for fewer than 3 entries; otherwise it   *)
(* is improving iff (last - third-from-last) / 2 > 0.1, declining iff it   *)
(* is < -0.1 and stable otherwise - a slope of exactly 0.1 or -0.1 is      *)
(* stable and the middle entry plays no part.  The comparison is that of   *)
(* the numbers the entries are, without rounding: the slope is above 0.1   *)
(* when the last entry is above the third-from-last plus 2 x 0.1.          *)
C26_TrendFunction ==
    LET Exceeds(high, low) ==
            LET tenth == binary64(Pct(10))
            IN  Less64(Carry(<<low[1] + (2 * tenth[1]), low[2] + (2 * tenth[2]),
                               low[3] + (2 * tenth[3])>>), high)
    IN
    ev.op = "trend" =>
        LET scores == state.confidence_scores
            n == Len(scores)
        IN  state.confidence_trend =
                IF n < 3 THEN "stable"
                ELSE IF Exceeds(scores[n], scores[n - 2]) THEN "improving"
                ELSE IF Exceeds(scores[n - 2], scores[n]) THEN "declining"
                ELSE "stable"

(* calculate_trend has been applied to a history whose last entry is the   *)
(* third-from-last plus 2 x 0.1 (slope exactly 0.1), with a middle entry   *)
(* above both, and has returned stable                                     *)
C26_Witness ==
    /\ ev.op = "trend"
    /\ Len(state.confidence_scores) >= 3
    /\ LET scores == state.confidence_scores
            n == Len(scores)
            tenth == binary64(Pct(10))
       IN  /\ scores[n] = Carry(<<scores[n - 2][1] + (2 * tenth[1]),
                                   scores[n - 2][2] + (2 * tenth[2]),
                                   scores[n - 2][3] + (2 * tenth[3])>>)
           /\ Less64(scores[n], scores[n - 1])
    /\ state.confidence_trend = "stable"

(* C27: whenever a step appends an interviewer question to the log and     *)
(* leaves pending_response = true, questions_asked and questions_in_stage  *)
(* both increase by exactly 1 in that step - for the opening question and  *)
(* the wrapup prompts too.                                                 *)
C27_QuestionCounted ==
    [][LET AssistantMessages(s) ==
               Cardinality({i \in 1..Len(s.messages) :
                                s.messages[i] \in {DictAssistant, AIMessage}})
       IN  (/\ AssistantMessages(state') = AssistantMessages(state) + 1
            /\ state'.pending_response)
               => /\ state'.questions_asked = state.questions_asked + 1
                  /\ state'.questions_in_stage = state.questions_in_stage + 1]_vars

(* C28: a warmup, technical, deep_dive or wrapup handler invoked on a      *)
(* state with pending_response = true changes no field of the state.       *)
C28_SuspendPointNoOp ==
    [][(ev'.op \in HandlerNodes /\ ev'.outcome = "suspended") => state' = state]_vars

(* a handler has run on a suspended session that holds evaluated answers *)
C28_Witness ==
    /\ ev.op \in HandlerNodes
    /\ ev.outcome = "suspended"
    /\ state.pending_response
    /\ ev.qis0 = state.questions_in_stage
    /\ state.questions_in_stage >= 2
    /\ Len(state.confidence_scores) >= 1

(* C29: current_stage changes only in load_context (session start),        *)
(* wrapup, feedback and the forced completion; an answer processed by the  *)
(* warmup, technical or deep_dive handler leaves it unchanged, also when   *)
(* the handler exits the stage.                                            *)
C29_StageWriters ==
    [][/\ state'.current_stage # state.current_stage
           => ev'.op \in {"start", "wrapup", "complete_await", "complete"}
       /\ ev'.op \in {"submit", "warmup", "technical", "deep_dive"}
           => state'.current_stage = state.current_stage]_vars

(* a handler has evaluated an answer and left its stage by resetting       *)
(* questions_in_stage, and current_stage is what it was                    *)
C29_Witness ==
    /\ ev.op = "warmup"
    /\ ev.status = 200
    /\ ev.answered
    /\ ev.qis0 > 0
    /\ state.questions_in_stage = 0
    /\ ~state.pending_response
    /\ state.current_stage = ev.stage0
    /\ state.current_stage = "warmup"

(* C30: a submit_response call that ends in an internal error because the  *)
(* handler raised leaves the session as it was before the call.            *)
C30_FailedSubmitRollsBack ==
    [][(ev'.op = "submit" /\ ev'.status = 500 /\ ev'.outcome = "handler_raised")
           => state' = state]_vars
====
